---- MODULE Spec2Model ----
(***************************************************************************)
(* Model of the shuffled-complex-evolution calibration of                  *)
(* src/autocal/aquimod.py: AquiModAWS.calibrate and AquiModAWS._cce.       *)
(*                                                                         *)
(* The simulator (AquiModAWS executable, reached through self.run and      *)
(* read back through read_performance_output) is a black box: in           *)
(* calibration mode ("c") it draws num_runs parameter vectors inside the   *)
(* calibration limits and reports them in order of ObjectiveFunction; in   *)
(* evaluation mode ("e") it evaluates the vector it is given.  The         *)
(* objective value it reports is any value in 0..MaxObj.                   *)
(*                                                                         *)
(* Data frames are sequences of rows; a row carries its index label (idx), *)
(* its parameter columns (x), ObjectiveFunction (of) and, inside _cce, the *)
(* weight column.  Parameter values are exact rationals held as integers   *)
(* in units of 1/Unit, so the mean and the contraction are computed        *)
(* without rounding.                                                       *)
(***************************************************************************)
EXTENDS Integers, Sequences, FiniteSets, TLC

\* ---------------------------------------------------------------- bounds
MaxSample == 4
MaxAlpha == 2
MaxObj == 1

\* ------------------------------------------------------------- constants
\* reflection_coef=1, contraction_coef=0.5 (= ContractionNum / ContractionDen)
reflection_coef == 1
ContractionNum == 1
ContractionDen == 2

\* parameter columns and their calibration limits (rows "min" and "max");
\* y is a parameter held fixed by its limits (min = max)
Params == {"x", "y"}
parameter_lims == [min |-> [x |-> 0, y |-> 1], max |-> [x |-> 1, y |-> 1]]

VARIABLES
    cfg,         \* arguments of calibrate
    pc,          \* position in calibrate / _cce
    err,         \* exception that ended the run ("" when none)
    population,  \* calibrate: population
    i,           \* calibrate: loop variable of the partition loop
    complx,      \* calibrate: the complex handed to _cce
    complxes,    \* calibrate: the list complxes
    complx_df,   \* _cce: complx_df
    simplx,      \* _cce: simplx
    it,          \* _cce: iterations of the alpha loop completed
    centroid,    \* _cce: centroid
    worst,       \* _cce: worst
    cand,        \* _cce: new, before it is evaluated (reflection candidate)
    within,      \* _cce: within_parameter_space
    new,         \* _cce: new, after read_performance_output
    evals,       \* vectors handed to the simulator in the current iteration
    runs,        \* number of calls of self.run
    ret          \* value returned by calibrate

vars == <<cfg, pc, err, population, i, complx, complxes, complx_df, simplx, it,
          centroid, worst, cand, within, new, evals, runs, ret>>

\* --------------------------------------------------------------- helpers
RECURSIVE Pow(_, _)
Pow(b, e) == IF e = 0 THEN 1 ELSE b * Pow(b, e - 1)

\* Resolution of the parameter values: one calibration-limit unit is Unit(c)
\* integer steps, enough for alpha divisions by simplex_size and by 2.
Unit(c) == Pow(ContractionDen * c.simplex_size, c.alpha)

RECURSIVE SumSeq(_)
SumSeq(s) == IF s = <<>> THEN 0 ELSE Head(s) + SumSeq(Tail(s))

Max(a, b) == IF a >= b THEN a ELSE b

RECURSIVE MaxOf(_)
MaxOf(rows) == IF Len(rows) = 1 THEN rows[1].of
               ELSE Max(rows[1].of, MaxOf(Tail(rows)))

None == [none |-> TRUE, rows |-> <<>>]
NaN == [num |-> 0, den |-> 0]
NoVec == [c \in Params |-> 0]
NoPoint == [x |-> NoVec, of |-> 0]

\* minimum <= value <= maximum for one column
InLimits(c, col, v) ==
    /\ parameter_lims.min[col] * Unit(c) <= v
    /\ v <= parameter_lims.max[col] * Unit(c)

\* Vectors the simulator draws in calibration mode.
CalibrationVectors(c) ==
    {v \in [Params -> {k * Unit(c) : k \in 0..1}] :
        \A col \in Params : InLimits(c, col, v[col])}

SimulatorPoints(c) == [x : CalibrationVectors(c), of : 0..MaxObj]

\* sort_by("ObjectiveFunction", ascending=False): stable insertion
RECURSIVE InsertDesc(_, _)
InsertDesc(r, s) ==
    IF s = <<>> THEN <<r>>
    ELSE IF Head(s).of >= r.of THEN <<Head(s)>> \o InsertDesc(r, Tail(s))
    ELSE <<r>> \o s

RECURSIVE SortDesc(_)
SortDesc(s) ==
    IF s = <<>> THEN <<>>
    ELSE InsertDesc(s[Len(s)], SortDesc(SubSeq(s, 1, Len(s) - 1)))

IsSortedDesc(s) == \A a, b \in 1..Len(s) : a < b => s[a].of >= s[b].of

\* ------------------------------------------------------------- calibrate
Configs ==
    {c \in [num_complexes : 0..MaxSample, complex_size : 1..MaxSample,
            simplex_size : 1..MaxSample, alpha : 0..MaxAlpha] :
        c.num_complexes * c.complex_size <= MaxSample}

Init ==
    /\ cfg \in Configs
    /\ pc = "start"
    /\ err = ""
    /\ population = <<>>
    /\ i = 0
    /\ complx = None
    /\ complxes = <<>>
    /\ complx_df = <<>>
    /\ simplx = <<>>
    /\ it = 0
    /\ centroid = NoVec
    /\ worst = NoPoint
    /\ cand = NoVec
    /\ within = TRUE
    /\ new = NoPoint
    /\ evals = <<>>
    /\ runs = 0
    /\ ret = None

\* the run's results taken in the order the points were drawn
ReadUnsorted(raw) ==
    [k \in 1..Len(raw) |-> [idx |-> k - 1, x |-> raw[k].x, of |-> raw[k].of]]

\* Results of a calibration-mode run, in order of ObjectiveFunction, read
\* into a frame with index labels 0..n-1.
ReadCalibration(raw) ==
    LET s == SortDesc(raw)
    IN [k \in 1..Len(s) |-> [idx |-> k - 1, x |-> s[k].x, of |-> s[k].of]]

\* sample_size = num_complexes * complex_size; run(sim_mode="c",
\* num_runs=sample_size); population = read_performance_output()
Sample ==
    /\ pc = "start"
    /\ LET sample_size == cfg.num_complexes * cfg.complex_size
       IN \E raw \in [1..sample_size -> SimulatorPoints(cfg)] :
              population' = ReadCalibration(raw)
    /\ runs' = runs + 1
    /\ pc' = "partition"
    /\ UNCHANGED <<cfg, err, i, complx, complxes, complx_df, simplx, it, centroid,
                   worst, cand, within, new, evals, ret>>

\* contiguous slices of the population instead of round robin
contiguous_mask(df, n, k) ==
    [j \in 1..Len(df) |-> ((j - 1) \div (Len(df) \div n)) = k]

\* bool_mask = [(j % num_complexes) == i for j in range(len(df))]
bool_mask(df, n, k) == [j \in 1..Len(df) |-> ((j - 1) % n) = k]

\* df.iloc[bool_mask]
RECURSIVE ILoc(_, _)
ILoc(df, mask) ==
    IF Len(df) = 0 THEN <<>>
    ELSE (IF mask[1] THEN <<df[1]>> ELSE <<>>) \o ILoc(Tail(df), Tail(mask))

\* the complex of loop index k
ComplexOf(df, n, k) == ILoc(df, bool_mask(df, n, k))

\* for i in range(num_complexes): build complx and call _cce
Partition ==
    /\ pc = "partition"
    /\ i < cfg.num_complexes
    /\ complx' = [none |-> FALSE,
                  rows |-> ComplexOf(population, cfg.num_complexes, i)]
    /\ complx_df' = <<>>
    /\ pc' = "cce"
    /\ UNCHANGED <<cfg, err, population, i, complxes, simplx, it, centroid,
                   worst, cand, within, new, evals, runs, ret>>

\* the partition loop is exhausted; calibrate falls off its end
Finish ==
    /\ pc = "partition"
    /\ i = cfg.num_complexes
    /\ pc' = "done"
    /\ ret' = None
    /\ UNCHANGED <<cfg, err, population, i, complx, complxes, complx_df, simplx,
                   it, centroid, worst, cand, within, new, evals, runs>>

\* ------------------------------------------------------------------ _cce
\* (2 * (m + 1 + range(1, m + 1))) / (m * (m + 1)), for the row at rank r
Weight(m, r) == [num |-> 2 * (m + 1 + r), den |-> m * (m + 1)]

\* sum of a weight column whose entries share their denominator
WeightSum(ws) ==
    [num |-> SumSeq([r \in 1..Len(ws) |-> ws[r].num]), den |-> ws[1].den]

\* a / b for two fractions
RatDiv(a, b) == [num |-> a.num * b.den, den |-> a.den * b.num]

\* complx_df sorted, with its weight column, normalised by the column's sum
Weighted(rows) ==
    LET m == Len(rows)
        s == SortDesc(rows)
        ws == [r \in 1..m |-> Weight(m, r)]
    IN [r \in 1..m |->
           [idx |-> s[r].idx, x |-> s[r].x, of |-> s[r].of,
            weight |-> RatDiv(ws[r], WeightSum(ws))]]

\* sequences np.random.choice(index, size, replace=False, p=weight) can
\* return: size distinct positions, each of positive probability
Choices(df, size) ==
    {sel \in [1..size -> 1..Len(df)] :
        /\ \A a, b \in 1..size : a # b => sel[a] # sel[b]
        /\ \A a \in 1..size : df[sel[a]].weight.num > 0}

\* lines 313-327: sort, weights, draw the simplex
CceStart ==
    /\ pc = "cce"
    /\ cfg.simplex_size <= Len(complx.rows)
    /\ LET df == Weighted(complx.rows)
       IN /\ complx_df' = df
          /\ \E sel \in Choices(df, cfg.simplex_size) :
                 simplx' = [k \in 1..cfg.simplex_size |-> df[sel[k]]]
    /\ it' = 0
    /\ pc' = "iter"
    /\ UNCHANGED <<cfg, err, population, i, complx, complxes, centroid, worst,
                   cand, within, new, evals, runs, ret>>

\* np.random.choice: "Cannot take a larger sample than population when
\* replace=False"
CceChoiceError ==
    /\ pc = "cce"
    /\ cfg.simplex_size > Len(complx.rows)
    /\ complx_df' = Weighted(complx.rows)
    /\ pc' = "error"
    /\ err' = "ValueError"
    /\ UNCHANGED <<cfg, population, i, complx, complxes, simplx, it, centroid,
                   worst, cand, within, new, evals, runs, ret>>

\* the mean of all simplex points but the last
CentroidOfBest(s) ==
    [col \in Params |->
        IF Len(s) = 1 THEN s[1].x[col]
        ELSE SumSeq([k \in 1..(Len(s) - 1) |-> s[k].x[col]]) \div (Len(s) - 1)]

\* simplx.mean(), parameter columns
Centroid(s) ==
    [col \in Params |->
        SumSeq([k \in 1..Len(s) |-> s[k].x[col]]) \div Len(s)]

\* the first row of the sorted simplex
FirstPos(s) == 1

\* position of worst = simplx.iloc[-1]
WorstPos(s) == Len(s)

\* centroid + reflection_coef * (centroid - worst)
Reflect(c, w) == [col \in Params |-> c[col] + reflection_coef * (c[col] - w[col])]

\* worst + contraction_coef * (centroid - worst)
Contract(w, c) ==
    [col \in Params |->
        w[col] + (ContractionNum * (c[col] - w[col])) \div ContractionDen]

\* the flag as the last column alone leaves it
WithinLastColumn(c, v) == InLimits(c, "y", v["y"])

\* the loop over new.columns: minimum <= new.loc[0, col] <= maximum
WithinParameterSpace(c, v) == \A col \in Params : InLimits(c, col, v[col])

\* a comparison that also escalates on a tie
NotBetterThanWorst(n, w) == n.of <= w.of

\* new.loc[0, "ObjectiveFunction"] < worst[0, "ObjectiveFunction"]
WorseThanWorst(n, w) == n.of < w.of

\* simplx.iloc[-1] = new
Replace(s, n) ==
    [s EXCEPT ![WorstPos(s)] =
        [idx |-> s[WorstPos(s)].idx, x |-> n.x, of |-> n.of, weight |-> NaN]]

\* lines 330-348, then 358-369: the reflected point is inside the limits
\* and is evaluated
CceReflect ==
    /\ pc = "iter"
    /\ it < cfg.alpha
    /\ LET s == SortDesc(simplx)
           c == Centroid(s)
           w == s[WorstPos(s)]
           n == Reflect(c, w.x)
       IN /\ WithinParameterSpace(cfg, n)
          /\ simplx' = s
          /\ centroid' = c
          /\ worst' = [x |-> w.x, of |-> w.of]
          /\ cand' = n
          /\ within' = TRUE
          /\ \E o \in 0..MaxObj :
                 /\ new' = [x |-> n, of |-> o]
                 /\ evals' = <<[kind |-> "reflection", x |-> n, of |-> o]>>
    /\ runs' = runs + 1
    /\ pc' = "check9"
    /\ UNCHANGED <<cfg, err, population, i, complx, complxes, complx_df, it, ret>>

\* lines 330-348, then 350-355 and 369: the reflected point is outside the
\* limits; the simulator draws and evaluates one point in calibration mode
CceReflectMutate ==
    /\ pc = "iter"
    /\ it < cfg.alpha
    /\ LET s == SortDesc(simplx)
           c == Centroid(s)
           w == s[WorstPos(s)]
           n == Reflect(c, w.x)
       IN /\ ~WithinParameterSpace(cfg, n)
          /\ simplx' = s
          /\ centroid' = c
          /\ worst' = [x |-> w.x, of |-> w.of]
          /\ cand' = n
          /\ within' = FALSE
          /\ \E p \in SimulatorPoints(cfg) :
                 /\ new' = p
                 /\ evals' = <<[kind |-> "mutation", x |-> p.x, of |-> p.of]>>
    /\ runs' = runs + 1
    /\ pc' = "check9"
    /\ UNCHANGED <<cfg, err, population, i, complx, complxes, complx_df, it, ret>>

\* lines 371-380: contraction
CceContract ==
    /\ pc = "check9"
    /\ WorseThanWorst(new, worst)
    /\ \E o \in 0..MaxObj :
          LET n == Contract(worst.x, centroid)
          IN /\ new' = [x |-> n, of |-> o]
             /\ evals' = Append(evals, [kind |-> "contraction", x |-> n, of |-> o])
    /\ runs' = runs + 1
    /\ pc' = "check12"
    /\ UNCHANGED <<cfg, err, population, i, complx, complxes, complx_df, simplx,
                   it, centroid, worst, cand, within, ret>>

\* line 371, condition false
CceNoContract ==
    /\ pc = "check9"
    /\ ~WorseThanWorst(new, worst)
    /\ pc' = "check12"
    /\ UNCHANGED <<cfg, err, population, i, complx, complxes, complx_df, simplx,
                   it, centroid, worst, cand, within, new, evals, runs, ret>>

\* lines 382-388: mutation, then the replacement
CceMutate ==
    /\ pc = "check12"
    /\ WorseThanWorst(new, worst)
    /\ \E p \in SimulatorPoints(cfg) :
          /\ new' = p
          /\ evals' = Append(evals, [kind |-> "mutation", x |-> p.x, of |-> p.of])
          /\ simplx' = Replace(simplx, p)
    /\ runs' = runs + 1
    /\ it' = it + 1
    /\ pc' = "iter"
    /\ UNCHANGED <<cfg, err, population, i, complx, complxes, complx_df,
                   centroid, worst, cand, within, ret>>

\* complx_df.loc[simplx.index] = simplx
WriteBack(df, s) ==
    [r \in 1..Len(df) |->
        IF \E k \in 1..Len(s) : s[k].idx = df[r].idx
        THEN s[CHOOSE k \in 1..Len(s) : s[k].idx = df[r].idx]
        ELSE df[r]]

\* the replacement with the write-back inside the alpha loop
CceReplaceWriteBack ==
    /\ pc = "check12"
    /\ ~WorseThanWorst(new, worst)
    /\ simplx' = Replace(simplx, new)
    /\ complx_df' = WriteBack(complx_df, Replace(simplx, new))
    /\ it' = it + 1
    /\ pc' = "iter"
    /\ UNCHANGED <<cfg, err, population, i, complx, complxes,
                   centroid, worst, cand, within, new, evals, runs, ret>>

\* line 382, condition false, then line 388
CceReplace ==
    /\ pc = "check12"
    /\ ~WorseThanWorst(new, worst)
    /\ simplx' = Replace(simplx, new)
    /\ it' = it + 1
    /\ pc' = "iter"
    /\ UNCHANGED <<cfg, err, population, i, complx, complxes, complx_df,
                   centroid, worst, cand, within, new, evals, runs, ret>>

\* line 390; _cce has no return statement, so calibrate's
\* complx = self._cce(...) binds None, and the loop goes on
CceReturn ==
    /\ pc = "iter"
    /\ it = cfg.alpha
    /\ complx_df' = WriteBack(complx_df, simplx)
    /\ complx' = None
    /\ i' = i + 1
    /\ pc' = "partition"
    \* the other locals of the call are gone
    /\ simplx' = <<>>
    /\ it' = 0
    /\ centroid' = NoVec
    /\ worst' = NoPoint
    /\ cand' = NoVec
    /\ within' = TRUE
    /\ new' = NoPoint
    /\ evals' = <<>>
    /\ UNCHANGED <<cfg, err, population, complxes, runs, ret>>

Next ==
    \/ Sample
    \/ Partition
    \/ Finish
    \/ CceStart
    \/ CceChoiceError
    \/ CceReflect
    \/ CceReflectMutate
    \/ CceContract
    \/ CceNoContract
    \/ CceMutate
    \/ CceReplace
    \/ CceReturn

Spec == Init /\ [][Next]_vars

\* ---------------------------------------------------------------- claims
InBounds(v) == \A col \in Params : InLimits(cfg, col, v[col])

\* centroid, worst, cand, new and evals hold the values of an inner iteration
IterationLocalsSet == pc \in {"check9", "check12"} \/ (pc = "iter" /\ it >= 1)

\* the configurations INIT is to reject: num_complexes >= 1,
\* complex_size >= parameter_count + 1, 2 <= simplex_size <= complex_size
\* and alpha >= 1 do not all hold
InvalidConfig(c) ==
    \/ c.num_complexes < 1
    \/ c.complex_size < Cardinality(Params) + 1
    \/ c.simplex_size < 2
    \/ c.simplex_size > c.complex_size
    \/ c.alpha < 1

IdxSet(rows) == {rows[r].idx : r \in 1..Len(rows)}

\* the complex under evolution, with the simplex written over its members
EvolvingComplex == WriteBack(complx_df, simplx)

\* the population with the complex under evolution written over its members
CurrentPoints ==
    [r \in 1..Len(population) |->
        IF \E k \in 1..Len(EvolvingComplex) :
               EvolvingComplex[k].idx = population[r].idx
        THEN EvolvingComplex[CHOOSE k \in 1..Len(EvolvingComplex) :
                                 EvolvingComplex[k].idx = population[r].idx]
        ELSE population[r]]

\* C1: every vector handed to the simulator (initial sample, reflection,
\* contraction, mutation) has every coordinate within its [min, max]; a
\* reflection candidate outside the limits is never evaluated, a mutation
\* point drawn inside the limits is evaluated in its place.
C1_EvaluatedWithinBounds ==
    /\ \A k \in 1..Len(population) : InBounds(population[k].x)
    /\ \A k \in 1..Len(evals) : InBounds(evals[k].x)
    /\ (IterationLocalsSet /\ ~InBounds(cand)) =>
           /\ evals[1].kind = "mutation"
           /\ \A k \in 1..Len(evals) : evals[k].x # cand
    /\ (IterationLocalsSet /\ InBounds(cand)) =>
           /\ evals[1].kind = "reflection"
           /\ evals[1].x = cand

\* the reflection left the limits, a mutation point was evaluated in its
\* place, and the contraction was evaluated after it
C1_Witness ==
    /\ pc = "check12"
    /\ ~InBounds(cand)
    /\ Len(evals) = 2
    /\ evals[2].kind = "contraction"

\* C2: with simplex_size >= 2 the best objective value never decreases:
\* after every inner iteration, and after _cce has written the simplex
\* back, the maximum over the complex and over all points is at least the
\* maximum of the sampled population, although worst is replaced
\* unconditionally.
C2_BestNeverDecreases ==
    /\ (cfg.simplex_size >= 2 /\ pc = "iter" /\ it >= 1) =>
           /\ MaxOf(EvolvingComplex) >= MaxOf(complx.rows)
           /\ MaxOf(CurrentPoints) >= MaxOf(population)
    /\ (cfg.simplex_size >= 2 /\ pc \in {"partition", "done"} /\ i >= 1) =>
           MaxOf(complx_df) >=
               MaxOf(ComplexOf(population, cfg.num_complexes, i - 1))

\* an iteration has replaced worst by a strictly worse point, in a simplex
\* whose best point ties with another
C2_Witness ==
    /\ cfg.simplex_size >= 2
    /\ pc = "iter"
    /\ it >= 1
    /\ new.of < worst.of
    /\ simplx[1].of = worst.of

C4_ReturnsBestPoint ==
    (pc = "done" /\ ~InvalidConfig(cfg)) =>
        /\ ~ret.none
        /\ Len(ret.rows) >= 1
        /\ ret.rows[1].of = MaxOf(population)

\* C5: population index j goes to complex j mod num_complexes; every
\* complex has complex_size points, no index is in two complexes, and the
\* complexes together hold every index.
C5_RoundRobinPartition ==
    pc = "cce" =>
        LET n == cfg.num_complexes
            size == Len(population)
            part(k) == IdxSet(ComplexOf(population, n, k))
        IN /\ Len(complx.rows) = cfg.complex_size
           /\ IdxSet(complx.rows) = {j \in 0..(size - 1) : j % n = i}
           /\ \A k \in 0..(n - 1) :
                  /\ Len(ComplexOf(population, n, k)) = cfg.complex_size
                  /\ Cardinality(part(k)) = cfg.complex_size
                  /\ \A j \in part(k) : j % n = k
           /\ \A k1, k2 \in 0..(n - 1) : k1 # k2 => part(k1) \cap part(k2) = {}
           /\ UNION {part(k) : k \in 0..(n - 1)} = 0..(size - 1)

\* the second of two complexes of two points has been built
C5_Witness ==
    /\ pc = "cce"
    /\ cfg.num_complexes = 2
    /\ cfg.complex_size = 2
    /\ i = 1
    /\ IdxSet(complx.rows) = {1, 3}

\* C6: in a complex of m >= 2 points the weight at rank r is
\* 2*(m + 1 - r) / (m*(m + 1)), the weights strictly decrease with rank and
\* they sum to 1.
C6_TriangularWeights ==
    (pc = "iter" /\ it = 0 /\ Len(complx_df) >= 2) =>
        LET m == Len(complx_df)
            w(r) == complx_df[r].weight
        IN /\ \A r \in 1..m : w(r).num * (m * (m + 1)) = 2 * (m + 1 - r) * w(r).den
           /\ \A r \in 1..(m - 1) : w(r).num * w(r + 1).den > w(r + 1).num * w(r).den
           /\ SumSeq([r \in 1..m |-> w(r).num]) = w(1).den

\* C7: an invalid configuration is rejected before the simulator is run.
C7_InvalidRejectedBeforeEvaluation ==
    InvalidConfig(cfg) => (runs = 0 /\ pc \in {"start", "error"})

\* C8: with a valid configuration, _cce returns the evolved complex, of
\* complex_size points, and when calibrate ends the points replaced in _cce
\* are in the population, whose length is still
\* num_complexes * complex_size.
C8_EvolvedComplexReturned ==
    /\ (pc \in {"partition", "done"} /\ i >= 1 /\ ~InvalidConfig(cfg)) =>
           /\ ~complx.none
           /\ Len(complx.rows) = cfg.complex_size
    /\ (pc = "done" /\ ~InvalidConfig(cfg)) =>
           /\ Len(population) = cfg.num_complexes * cfg.complex_size
           /\ \A r \in 1..Len(complx_df) :
                  \E k \in 1..Len(population) :
                      /\ population[k].x = complx_df[r].x
                      /\ population[k].of = complx_df[r].of

\* C9 (as the specification states it): the centroid is the mean of the
\* simplex_size - 1 best simplex points, the worst excluded.
C9_CentroidExcludesWorst ==
    (pc \in {"check9", "check12"} /\ Len(simplx) >= 2) =>
        LET q == Len(simplx)
        IN \A col \in Params :
               /\ centroid[col] * (q - 1) =
                      SumSeq([k \in 1..(q - 1) |-> simplx[k].x[col]])
               /\ cand[col] =
                      centroid[col] + reflection_coef * (centroid[col] - worst.x[col])

\* C9 (amended): worst is the last point of the simplex sorted descending,
\* the centroid is the mean of all simplex_size simplex points, worst
\* included, and the reflection candidate is
\* centroid + reflection_coef * (centroid - worst).
C9_CentroidOfWholeSimplex ==
    pc \in {"check9", "check12"} =>
        LET q == Len(simplx)
        IN /\ IsSortedDesc(simplx)
           /\ worst.x = simplx[q].x
           /\ worst.of = simplx[q].of
           /\ \A col \in Params :
                  /\ centroid[col] * q = SumSeq([k \in 1..q |-> simplx[k].x[col]])
                  /\ cand[col] =
                         centroid[col] + reflection_coef * (centroid[col] - worst.x[col])

\* the second iteration has reflected a simplex of three points whose worst
\* differs from its best
C9_Witness ==
    /\ pc = "check9"
    /\ it = 1
    /\ Len(simplx) = 3
    /\ simplx[1].x # worst.x
    /\ centroid # worst.x

InAlphaLoop(p) == p \in {"iter", "check9", "check12"}

\* rows a and b agree on label, parameters and objective value
SamePoint(a, b) == a.idx = b.idx /\ a.x = b.x /\ a.of = b.of

\* C11 (as the specification states it): every inner iteration works on a
\* simplex drawn anew from the complex, re-sorted and holding the write-back
\* of the iteration before: each simplex member an iteration sorts is a row
\* of the complex as it stands.
C11_SimplexRedrawnEachIteration ==
    pc = "check9" =>
        /\ IsSortedDesc(complx_df)
        /\ \A k \in 1..Len(simplx) :
               \E r \in 1..Len(complx_df) : SamePoint(complx_df[r], simplx[k])

\* C11 (amended): _cce sorts the complex descending, computes the weights
\* and draws the simplex of simplex_size distinct complex members once,
\* before the alpha iterations; every iteration re-sorts that same simplex
\* and replaces its last row, leaving the complex untouched, so iteration
\* k+1 reuses the simplex of iteration k; the simplex is written back into
\* the complex once, after the last iteration.
C11_SimplexDrawnOnce ==
    [][/\ (pc = "cce" /\ pc' = "iter") =>
           /\ IsSortedDesc(complx_df')
           /\ IdxSet(complx_df') = IdxSet(complx.rows)
           /\ \A r \in 1..Len(complx_df') : complx_df'[r].weight.num > 0
           /\ Len(simplx') = cfg.simplex_size
           /\ Cardinality(IdxSet(simplx')) = cfg.simplex_size
           /\ \A k \in 1..Len(simplx') :
                  \E r \in 1..Len(complx_df') : simplx'[k] = complx_df'[r]
       /\ (InAlphaLoop(pc) /\ InAlphaLoop(pc')) =>
           /\ complx_df' = complx_df
           /\ Len(simplx') = Len(simplx)
           /\ IdxSet(simplx') = IdxSet(simplx)
           /\ (pc = "iter") =>
                  /\ IsSortedDesc(simplx')
                  /\ \A k \in 1..Len(simplx) :
                         \E j \in 1..Len(simplx') : simplx'[j] = simplx[k]
           /\ (pc' = "iter") =>
                  \A k \in 1..(Len(simplx) - 1) : simplx'[k] = simplx[k]
       /\ (pc = "iter" /\ pc' = "partition") =>
           /\ Len(complx_df') = Len(complx_df)
           /\ \A r \in 1..Len(complx_df) :
                  /\ complx_df'[r].idx = complx_df[r].idx
                  /\ \A k \in 1..Len(simplx) :
                         simplx[k].idx = complx_df[r].idx =>
                             complx_df'[r] = simplx[k]
                  /\ (\A k \in 1..Len(simplx) : simplx[k].idx # complx_df[r].idx)
                         => complx_df'[r] = complx_df[r]
      ]_vars

\* the second iteration has sorted the simplex of the first: it holds the
\* point the first iteration put in, which the complex does not hold yet
C11_Witness ==
    /\ pc = "check9"
    /\ it = 1
    /\ \E k \in 1..Len(simplx) :
          /\ simplx[k].weight = NaN
          /\ \A r \in 1..Len(complx_df) : ~SamePoint(complx_df[r], simplx[k])

\* ----------------------------------------------------------- type sanity
TypeOK ==
    /\ cfg \in Configs
    /\ pc \in {"start", "partition", "cce", "iter", "check9", "check12",
               "done", "error"}
    /\ it \in 0..cfg.alpha
    /\ i \in 0..cfg.num_complexes
====
